---- MODULE Spec2Model ----
(***************************************************************************)
(* Model of the remote-operation progress aggregation (git/remote.rs), of  *)
(* the error adapter Optional::optional (git/mod.rs) and of the            *)
(* channel-decoupled pull flow (cmd/pull.rs).                              *)
(***************************************************************************)
EXTENDS Integers, Sequences, FiniteSets, TLC

\* Largest counter value the transport reports in a sample.
MaxVal == 2
\* Largest number of callback invocations during one network call.
MaxCalls == 2
\* Commits the revwalk of list yields, at most.
MaxCommits == 2
\* Remotes of the repository, at most.
MaxRemotes == 2

(***************************************************************************)
(* Sideband lines.  A line is a sequence of byte groups (tokens); BadByte  *)
(* stands for a byte that is not valid UTF-8.                              *)
(***************************************************************************)
Digit == {"0", "1", "2", "3", "4", "5", "6", "7", "8", "9"}

DigitVal ==
  [d \in Digit |-> CASE d = "0" -> 0 [] d = "1" -> 1 [] d = "2" -> 2
                     [] d = "3" -> 3 [] d = "4" -> 4 [] d = "5" -> 5
                     [] d = "6" -> 6 [] d = "7" -> 7 [] d = "8" -> 8
                     [] d = "9" -> 9]

DigitOf == <<"0", "1", "2", "3", "4", "5", "6", "7", "8", "9">>

BadByte == "\\xFF"

\* usize::MAX on a 64-bit target, 18446744073709551615, as decimal digits.
UsizeMaxDigits ==
  <<"1","8","4","4","6","7","4","4","0","7","3","7","0","9","5","5","1","6","1","5">>

\* 18446744073709551616 = usize::MAX + 1: the smallest count that does not fit.
TooBig ==
  <<"1","8","4","4","6","7","4","4","0","7","3","7","0","9","5","5","1","6","1","6">>

None == <<>>
Some(v) == <<v>>

RECURSIVE StripZeros(_)
\* The digits without leading zeros (at least one digit is kept).
StripZeros(ds) ==
  IF Len(ds) > 1 /\ Head(ds) = "0" THEN StripZeros(Tail(ds)) ELSE ds

RECURSIVE DigitsGreater(_, _)
\* a > b for two digit strings of the same length.
DigitsGreater(a, b) ==
  IF a = <<>> THEN FALSE
  ELSE IF DigitVal[Head(a)] # DigitVal[Head(b)]
       THEN DigitVal[Head(a)] > DigitVal[Head(b)]
       ELSE DigitsGreater(Tail(a), Tail(b))

\* The number the digits denote fits a usize.
FitsUsize(ds) ==
  LET s == StripZeros(ds)
  IN  \/ Len(s) < Len(UsizeMaxDigits)
      \/ Len(s) = Len(UsizeMaxDigits) /\ ~DigitsGreater(s, UsizeMaxDigits)

RECURSIVE DecimalValue(_)
DecimalValue(ds) ==
  IF ds = <<>> THEN 0
  ELSE 10 * DecimalValue(SubSeq(ds, 1, Len(ds) - 1)) + DigitVal[ds[Len(ds)]]

\* str::parse::<usize>() on a non-empty run of ASCII digits: Err on overflow.
ParseUsize(ds) ==
  IF FitsUsize(ds) THEN Some(DecimalValue(StripZeros(ds))) ELSE None

\* Option::unwrap_or
UnwrapOr(opt, default) == IF opt = None THEN default ELSE opt[1]

RECURSIVE RunEnd(_, _, _)
\* The index after the longest run of tokens of S that starts at index i.
RunEnd(line, i, S) ==
  IF i <= Len(line) /\ line[i] \in S THEN RunEnd(line, i + 1, S) ELSE i

Is(line, i, tok) == i <= Len(line) /\ line[i] = tok

\* The regex (Counting|Compressing) objects:[ ]+[0-9]+% \(([0-9]+)\/([0-9]+)\)
\* matched at index p of the line: the three capture groups, or None.
MatchAt(line, p) ==
  LET s1 == p + 2
      s2 == RunEnd(line, s1, {" "})
      d2 == RunEnd(line, s2, Digit)
      c1 == d2 + 1
      c2 == RunEnd(line, c1, Digit)
      t1 == c2 + 1
      t2 == RunEnd(line, t1, Digit)
  IN  IF /\ p <= Len(line) /\ line[p] \in {"Counting", "Compressing"}
         /\ Is(line, p + 1, " objects:")
         /\ s2 > s1
         /\ d2 > s2
         /\ Is(line, d2, "% (")
         /\ c2 > c1
         /\ Is(line, c2, "/")
         /\ t2 > t1
         /\ Is(line, t2, ")")
      THEN Some(<<line[p], SubSeq(line, c1, c2 - 1), SubSeq(line, t1, t2 - 1)>>)
      ELSE None

\* Regex::captures: the leftmost match in the line.
Captures(line) ==
  LET hits == {p \in 1..Len(line) : MatchAt(line, p) # None}
  IN  IF hits = {} THEN None
      ELSE MatchAt(line, CHOOSE p \in hits : \A q \in hits : p <= q)

\* std::str::from_utf8(line).is_ok()
IsUtf8(line) == \A i \in 1..Len(line) : line[i] # BadByte

\* Some((kind, current, total)) for a line that is UTF-8 and matches, else None.
parse_sideband_progress(line) ==
  IF IsUtf8(line) /\ Captures(line) # None
  THEN LET c == Captures(line)[1]
       IN  Some(<<c[1], UnwrapOr(ParseUsize(c[2]), 0), UnwrapOr(ParseUsize(c[3]), 0)>>)
  ELSE None


(***************************************************************************)
(* One network operation: Remote::fetch / push / connect with the          *)
(* callbacks of RemoteOpts::callbacks.                                     *)
(***************************************************************************)
\* The fields of State, in the order State::progress visits them.
Fields == <<"pack", "push", "count", "compress">>
Cat == {Fields[i] : i \in 1..Len(Fields)}

\* The three closures registered by RemoteOpts::callbacks.
Closure == {"sideband", "pack", "push"}

\* git2::Error values the transport call can fail with.
TransportErrors ==
  { [code |-> "Auth", class |-> "Ssh"], [code |-> "GenericError", class |-> "Net"] }

\* The counts a sample may carry: any current, and as total one of the two
\* largest values (so that current < total, = total and > total all occur).
Values == 0..MaxVal
Totals == {MaxVal - 1, MaxVal}

ProgressLine(kind, c, t) ==
  <<kind, " objects:", " ", "4", "2", "% (">> \o c \o <<"/">> \o t \o <<")">>

\* Lines the regex matches: every pair of values for both categories, a count
\* with a leading zero, a count that overflows usize, and a match that is
\* not at the start of the line.
ProgressLines ==
  {ProgressLine(k, <<DigitOf[c + 1]>>, <<DigitOf[t + 1]>>) :
     k \in {"Counting", "Compressing"}, c \in Values, t \in Totals}
    \cup { ProgressLine("Counting", <<"0", "1">>, <<"0", "1">>),
           ProgressLine("Compressing", TooBig, TooBig),
           <<"remote: ">> \o ProgressLine("Counting", <<"1">>, <<"1">>) \o <<"\r">> }

\* Lines parse_sideband_progress rejects: free text, a line with no blank
\* after the colon, and a matching line that is not UTF-8.
OtherLines ==
  { <<"remote: done", "\n">>,
    <<"Counting", " objects:", "5", "% (", "1", "/", "2", ")">>,
    <<BadByte>> \o ProgressLine("Compressing", <<"1">>, <<"2">>) }

Lines == ProgressLines \cup OtherLines

\* parse_sideband_progress on every line the transport may deliver.
Parsed == [line \in Lines |-> parse_sideband_progress(line)]

VARIABLES
  phase,        \* "opts": RemoteOpts built; "transport": the library call runs;
                \* "returned": it returned Ok; "done": fetch/push/connect returned
  cur, tot,     \* State.<field>.current / .total (AtomicUsize)
  bar,          \* the ProgressBar: length, position, message, ticks, clears
  stdout,       \* RemoteOpts.stdout
  th,           \* per closure: where its running invocation stands, its locals
  calls,        \* callbacks invoked so far
  result,       \* None, or the Result returned by fetch / push / connect
  latest,       \* history: per field, the last sample handed to its callback
  lastInvoked,  \* history: the field of the most recently invoked update
  diag          \* history: the rejected sideband bytes, in arrival order

rvars == <<phase, cur, tot, bar, stdout, th, calls, result,
           latest, lastInvoked, diag>>

\* Optional::optional
VARIABLES
  oin,          \* the Result optional() is called on
  oout          \* None, or Some(what optional() returned)

ovars == <<oin, oout>>

\* pull::run
VARIABLES
  ppc,          \* where pull::run stands
  pstep,        \* the index in Lookups of the next lookup of lines 29-35
  chan,         \* the samples sent on the channel and not yet received
  senders,      \* whether the sending end of the channel is still alive
  rthread,      \* the rendering thread: "none", "running", "exited"
  widget,       \* the widget the rendering thread owns
  sent,         \* samples sent so far
  joined,       \* handle.join() has returned
  presult,      \* None, or Some(the Result of pull::run)
  repoHead,     \* the commit HEAD points to: "local" or "upstream"
  worktree,     \* the commit checked out in the working tree
  fetched,      \* remote.fetch(..) of line 41 has returned Ok
  analysis      \* None, or Some(the outcome of the merge analysis)

phist == <<fetched, analysis>>
pvars == <<ppc, pstep, chan, senders, rthread, widget, sent, joined, presult,
           repoHead, worktree, phist>>

\* main and the command it dispatches
VARIABLES
  mpc,          \* where main stands: "start", "running", "report", "exited"
  cmd,          \* the command main dispatched to
  cresult,      \* None, or Some(the Result app() returned)
  errLines,     \* lines main printed to standard error
  exitCode      \* None, or Some(the exit status of the process)

mvars == <<mpc, cmd, cresult, errLines, exitCode>>

\* list::_run
VARIABLES
  lpc,          \* where _run stands
  short,        \* opts.short
  ncommits,     \* commits the revwalk yields
  li,           \* the commit of the current iteration
  pipe,         \* standard output: "open", or "closed" by its reader
  out,          \* what reached standard output: <<commit, "line" | "meta">>
  wlog          \* every write attempted: [commit, what, outcome]

lvars == <<lpc, short, ncommits, li, pipe, out, wlog>>

\* checkout::run
VARIABLES
  kpc,          \* where run stands
  klocal,       \* None, or Some(what repo.find_branch returned on line 85)
  fallback,     \* find_remote_branch was called (line 87)
  remotes,      \* repo.remotes(): "named", "unnamed" or "bad" entries
  ri,           \* the remote of the current iteration of find_remote_branch
  touched,      \* the remotes a fetch was started on
  kstep,        \* the index in TrackSteps of the next step of lines 61-65
  created,      \* a local tracking branch was created
  kfirst,       \* None, or Some(<<checkout result, what try_checkout made of it>>)
  attempts,     \* the results of the checkouts attempted, in order
  stashes,      \* the positions in attempts at which a stash was saved
  kfail         \* the step of run that failed, "" if none

kvars == <<kpc, klocal, fallback, remotes, ri, touched, kstep, created, kfirst, attempts,
           stashes, kfail>>

\* status::run
VARIABLES
  spc,          \* where status::run stands
  noPager,      \* opts.no_pager
  sstate,       \* None, or Some(what find_state returned)
  submitted,    \* the parts of the status tree handed to the renderer
  pageCalls,    \* calls of minus::page_all
  shown,        \* what the pager displayed: None, or Some(submitted then)
  renderFailed  \* render(..) returned an error

svars == <<spc, noPager, sstate, submitted, pageCalls, shown, renderFailed>>

cvars == <<mvars, lvars, kvars, svars>>

Idle == [pc |-> "idle", line |-> <<>>, kind |-> "", current |-> 0, total |-> 0,
         sumTotal |-> 0, sumCurrent |-> 0]

\* RemoteOpts::default and, in callbacks(), State::new.
InitRemote ==
  /\ phase = "opts"
  /\ cur = [c \in Cat |-> 0]
  /\ tot = [c \in Cat |-> 0]
  /\ bar = [length |-> None, position |-> 0, message |-> "", ticks |-> 0, clears |-> 0]
  /\ stdout = <<>>
  /\ th = [t \in Closure |-> Idle]
  /\ calls = 0
  /\ result = None
  /\ latest = [c \in Cat |-> None]
  /\ lastInvoked = ""
  /\ diag = <<>>

FieldOf_always_count(t, kind) ==
  CASE t = "pack" -> "pack"
    [] t = "push" -> "push"
    [] OTHER -> "count"

\* The Progress a closure stores into: the match on kind of the sideband
\* closure, state.pack and state.push of the other two.
FieldOf(t, kind) ==
  CASE t = "pack" -> "pack"
    [] t = "push" -> "push"
    [] kind = "Counting" -> "count"
    [] kind = "Compressing" -> "compress"

\* The category a recognized sideband line names.
CategoryOf(kind) == IF kind = "Counting" THEN "count" ELSE "compress"

\* Remote::fetch / push / connect up to the library call: opts.callbacks().
Call ==
  /\ phase = "opts"
  /\ phase' = "transport"
  /\ UNCHANGED <<cur, tot, bar, stdout, th, calls, result,
                 latest, lastInvoked, diag>>
  /\ UNCHANGED <<ovars, pvars, cvars>>

\* The history of a sample (current, total) handed to the update of field c.
Sampled(c, current, total) ==
  /\ latest' = [latest EXCEPT ![c] = Some(<<current, total>>)]
  /\ lastInvoked' = c

Invocable(t) ==
  /\ phase = "transport"
  /\ calls < MaxCalls
  /\ th[t].pc = "idle"

\* The transport invokes the pack_progress or push_transfer_progress closure.
StructuredProgress(t, current, total) ==
  /\ t \in {"pack", "push"}
  /\ Invocable(t)
  /\ th' = [th EXCEPT ![t] = [Idle EXCEPT !.pc = "set_message",
                                         !.kind = IF t = "pack" THEN "Packing" ELSE "Pushing",
                                         !.current = current, !.total = total]]
  /\ calls' = calls + 1
  /\ Sampled(t, current, total)
  /\ UNCHANGED <<phase, cur, tot, bar, stdout, result, diag>>
  /\ UNCHANGED <<ovars, pvars, cvars>>

\* The transport invokes the sideband closure with a line that parses.
SidebandProgress(line) ==
  /\ Invocable("sideband")
  /\ Parsed[line] # None
  /\ LET p == Parsed[line][1]
     IN  /\ th' = [th EXCEPT !["sideband"] =
                     [Idle EXCEPT !.pc = "store_current", !.line = line, !.kind = p[1],
                                  !.current = p[2], !.total = p[3]]]
         /\ Sampled(CategoryOf(p[1]), p[2], p[3])
  /\ calls' = calls + 1
  /\ UNCHANGED <<phase, cur, tot, bar, stdout, result, diag>>
  /\ UNCHANGED <<ovars, pvars, cvars>>

SidebandOther_utf8_only(line) ==
  /\ Invocable("sideband")
  /\ Parsed[line] = None
  /\ stdout' = IF IsUtf8(line) THEN stdout \o line ELSE stdout
  /\ calls' = calls + 1
  /\ diag' = diag \o line
  /\ UNCHANGED <<phase, cur, tot, bar, th, result, latest, lastInvoked>>
  /\ UNCHANGED <<ovars, pvars, cvars>>

\* The transport invokes the sideband closure with a line that does not
\* parse: stdout.extend_from_slice(line).
SidebandOther(line) ==
  /\ Invocable("sideband")
  /\ Parsed[line] = None
  /\ stdout' = stdout \o line
  /\ calls' = calls + 1
  /\ diag' = diag \o line
  /\ UNCHANGED <<phase, cur, tot, bar, th, result, latest, lastInvoked>>
  /\ UNCHANGED <<ovars, pvars, cvars>>

\* state.bar.set_message(..)
SetMessage(t) ==
  /\ th[t].pc = "set_message"
  /\ bar' = [bar EXCEPT !.message = th[t].kind]
  /\ th' = [th EXCEPT ![t].pc = IF t = "sideband" THEN "progress" ELSE "store_current"]
  /\ UNCHANGED <<phase, cur, tot, stdout, calls, result,
                 latest, lastInvoked, diag>>
  /\ UNCHANGED <<ovars, pvars, cvars>>

\* state.<field>.current.store(current, Relaxed)
StoreCurrent(t) ==
  /\ th[t].pc = "store_current"
  /\ cur' = [cur EXCEPT ![FieldOf(t, th[t].kind)] = th[t].current]
  /\ th' = [th EXCEPT ![t].pc = "store_total"]
  /\ UNCHANGED <<phase, tot, bar, stdout, calls, result,
                 latest, lastInvoked, diag>>
  /\ UNCHANGED <<ovars, pvars, cvars>>

\* state.<field>.total.store(total, Relaxed)
StoreTotal(t) ==
  /\ th[t].pc = "store_total"
  /\ tot' = [tot EXCEPT ![FieldOf(t, th[t].kind)] = th[t].total]
  /\ th' = [th EXCEPT ![t].pc = IF t = "sideband" THEN "set_message" ELSE "progress"]
  /\ UNCHANGED <<phase, cur, bar, stdout, calls, result,
                 latest, lastInvoked, diag>>
  /\ UNCHANGED <<ovars, pvars, cvars>>

RECURSIVE SumOver(_, _)
\* The loop of State::progress over the first n fields.
SumOver(f, n) == IF n = 0 THEN 0 ELSE SumOver(f, n - 1) + f[Fields[n]]

progress_first_three == <<SumOver(cur, Len(Fields) - 1), SumOver(tot, Len(Fields) - 1)>>

\* State::progress: (current, total).
progress == <<SumOver(cur, Len(Fields)), SumOver(tot, Len(Fields))>>

\* State::update: let (current, total) = self.progress().  The loads of the
\* loop are taken in one step; the steps between them and the widget writes
\* of update are separate.
Progress(t) ==
  /\ th[t].pc = "progress"
  /\ th' = [th EXCEPT ![t].sumCurrent = progress[1],
                      ![t].sumTotal = progress[2],
                      ![t].pc = "set_length"]
  /\ UNCHANGED <<phase, cur, tot, bar, stdout, calls, result,
                 latest, lastInvoked, diag>>
  /\ UNCHANGED <<ovars, pvars, cvars>>

\* State::update: self.bar.set_length(total)
SetLength(t) ==
  /\ th[t].pc = "set_length"
  /\ bar' = [bar EXCEPT !.length = Some(th[t].sumTotal)]
  /\ th' = [th EXCEPT ![t].pc = "set_position"]
  /\ UNCHANGED <<phase, cur, tot, stdout, calls, result,
                 latest, lastInvoked, diag>>
  /\ UNCHANGED <<ovars, pvars, cvars>>

\* State::update: self.bar.set_position(current)
SetPosition(t) ==
  /\ th[t].pc = "set_position"
  /\ bar' = [bar EXCEPT !.position = th[t].sumCurrent]
  /\ th' = [th EXCEPT ![t].pc = "tick"]
  /\ UNCHANGED <<phase, cur, tot, stdout, calls, result,
                 latest, lastInvoked, diag>>
  /\ UNCHANGED <<ovars, pvars, cvars>>

\* State::update: self.bar.tick(); the closure returns.
Tick(t) ==
  /\ th[t].pc = "tick"
  /\ bar' = [bar EXCEPT !.ticks = @ + 1]
  /\ th' = [th EXCEPT ![t] = Idle]
  /\ UNCHANGED <<phase, cur, tot, stdout, calls, result,
                 latest, lastInvoked, diag>>
  /\ UNCHANGED <<ovars, pvars, cvars>>

\* No callback is running.
Quiescent == \A t \in Closure : th[t].pc = "idle"

\* The library call returns Ok: every callback has returned.
TransportOk ==
  /\ phase = "transport"
  /\ Quiescent
  /\ phase' = "returned"
  /\ UNCHANGED <<cur, tot, bar, stdout, th, calls, result,
                 latest, lastInvoked, diag>>
  /\ UNCHANGED <<ovars, pvars, cvars>>

\* The library call returns Err(e): the ? operator returns it from
\* fetch / push / connect, and opts is dropped.
TransportErr(e) ==
  /\ phase = "transport"
  /\ Quiescent
  /\ phase' = "done"
  /\ result' = Some([ok |-> FALSE, err |-> e])
  /\ UNCHANGED <<cur, tot, bar, stdout, th, calls,
                 latest, lastInvoked, diag>>
  /\ UNCHANGED <<ovars, pvars, cvars>>

into_reply_no_clear ==
  /\ phase = "returned"
  /\ phase' = "done"
  /\ result' = Some([ok |-> TRUE, reply |-> [stdout |-> stdout]])
  /\ UNCHANGED <<cur, tot, bar, stdout, th, calls,
                 latest, lastInvoked, diag>>
  /\ UNCHANGED <<ovars, pvars, cvars>>

\* RemoteOpts::into_reply, and the Ok(..) that fetch / push / connect return.
into_reply ==
  /\ phase = "returned"
  /\ bar' = [bar EXCEPT !.clears = @ + 1]
  /\ phase' = "done"
  /\ result' = Some([ok |-> TRUE, reply |-> [stdout |-> stdout]])
  /\ UNCHANGED <<cur, tot, stdout, th, calls,
                 latest, lastInvoked, diag>>
  /\ UNCHANGED <<ovars, pvars, cvars>>

(***************************************************************************)
(* Optional::optional (git/mod.rs): a Result<T, git2::Error> is             *)
(* [ok |-> TRUE, value |-> v] or [ok |-> FALSE, err |-> e].                *)
(***************************************************************************)
ErrorCodes == {"GenericError", "NotFound", "Exists", "Ambiguous", "UnbornBranch"}
ErrorClasses == {"None", "Config", "Reference", "Odb", "Repository", "Net"}
Messages == {"m1", "m2"}
GitErrors == [code : ErrorCodes, class : ErrorClasses, message : Messages]
OkValues == {"v1", "v2"}

Ok(v) == [ok |-> TRUE, value |-> v]
Err(e) == [ok |-> FALSE, err |-> e]

OptionalInputs == {Ok(v) : v \in OkValues} \cup {Err(e) : e \in GitErrors}

optional_any_not_found(r) ==
  IF r.ok THEN Ok(Some(r.value))
  ELSE IF r.err.code = "NotFound" THEN Ok(None)
  ELSE Err(r.err)

\* Optional::optional
optional(r) ==
  IF r.ok THEN Ok(Some(r.value))
  ELSE IF r.err.code = "NotFound" /\ r.err.class \in {"Config", "Reference"} THEN Ok(None)
  ELSE Err(r.err)

\* A lookup has produced the Result r.
Lookup(r) ==
  /\ oout # None
  /\ oin' = r
  /\ oout' = None
  /\ UNCHANGED <<rvars, pvars, cvars>>

\* .optional() is called on the Result.
CallOptional ==
  /\ oout = None
  /\ oout' = Some(optional(oin))
  /\ UNCHANGED oin
  /\ UNCHANGED <<rvars, pvars, cvars>>

\* The first lookup returned Ok.
InitOptional ==
  /\ oin = Ok("v1")
  /\ oout = None

NextOptional ==
  \/ \E r \in OptionalInputs : Lookup(r)
  \/ CallOptional

(***************************************************************************)
(* pull::run (cmd/pull.rs), the channel-decoupled flow.                    *)
(***************************************************************************)
\* The fallible lookups of lines 29-35, in order.
Lookups == <<"head", "shorthand", "find_branch", "upstream", "remote_name">>

InitPull ==
  /\ ppc = "lookups"
  /\ pstep = 1
  /\ chan = <<>>
  /\ senders = FALSE
  /\ rthread = "none"
  /\ widget = [position |-> 0, clears |-> 0]
  /\ sent = 0
  /\ joined = FALSE
  /\ presult = None
  /\ repoHead = "local"
  /\ worktree = "local"
  /\ fetched = FALSE
  /\ analysis = None

\* pull::run returns r; its locals (tx if still held, handle) are dropped.
Return(r) ==
  /\ ppc' = "returned"
  /\ presult' = Some(r)
  /\ senders' = FALSE

\* Lines 29-35: one lookup succeeds, or fails and ? returns its error.
LookupStep(ok) ==
  /\ ppc = "lookups"
  /\ IF ok
     THEN /\ pstep' = pstep + 1
          /\ ppc' = IF pstep = Len(Lookups) THEN "setup" ELSE "lookups"
          /\ UNCHANGED <<presult, senders>>
     ELSE /\ Return(Err(Lookups[pstep]))
          /\ UNCHANGED pstep
  /\ UNCHANGED <<chan, rthread, widget, sent, joined, repoHead, worktree>>
  /\ UNCHANGED <<phist, rvars, ovars, cvars>>

\* Lines 37-38: mpsc::channel() and setup_progress_bar(rx).
SetupProgressBar ==
  /\ ppc = "setup"
  /\ senders' = TRUE
  /\ rthread' = "running"
  /\ ppc' = "find_remote"
  /\ UNCHANGED <<pstep, chan, widget, sent, joined, presult, repoHead, worktree>>
  /\ UNCHANGED <<phist, rvars, ovars, cvars>>

\* Line 40: repo.find_remote(remote)?
FindRemote(ok) ==
  /\ ppc = "find_remote"
  /\ IF ok
     THEN ppc' = "fetch" /\ UNCHANGED <<presult, senders>>
     ELSE Return(Err("find_remote"))
  /\ UNCHANGED <<pstep, chan, rthread, widget, sent, joined, repoHead, worktree>>
  /\ UNCHANGED <<phist, rvars, ovars, cvars>>

\* During the fetch of line 41 a progress sample is sent on tx; the channel
\* is unbounded, so the send does not wait.
FetchSend(v) ==
  /\ ppc = "fetch"
  /\ sent < MaxCalls
  /\ chan' = Append(chan, v)
  /\ sent' = sent + 1
  /\ UNCHANGED <<ppc, pstep, senders, rthread, widget, joined, presult, repoHead, worktree>>
  /\ UNCHANGED <<phist, rvars, ovars, cvars>>

\* Line 41 with a clone of tx kept alive by run after the fetch.
FetchReturns_keeps_sender(ok) ==
  /\ ppc = "fetch"
  /\ IF ok
     THEN ppc' = "join" /\ UNCHANGED <<presult, senders>>
     ELSE Return(Err("fetch"))
  /\ UNCHANGED <<pstep, chan, rthread, widget, sent, joined, repoHead, worktree>>
  /\ fetched' = ok
  /\ UNCHANGED <<analysis, rvars, ovars, cvars>>

\* Line 41: remote.fetch(..)? returns; the RemoteOpts that held tx is gone.
FetchReturns(ok) ==
  /\ ppc = "fetch"
  /\ IF ok
     THEN ppc' = "join" /\ senders' = FALSE /\ UNCHANGED presult
     ELSE Return(Err("fetch"))
  /\ UNCHANGED <<pstep, chan, rthread, widget, sent, joined, repoHead, worktree>>
  /\ fetched' = ok
  /\ UNCHANGED <<analysis, rvars, ovars, cvars>>

\* The rendering thread receives a sample and shows it.
RenderRecv ==
  /\ rthread = "running"
  /\ chan # <<>>
  /\ widget' = [widget EXCEPT !.position = Head(chan)]
  /\ chan' = Tail(chan)
  /\ UNCHANGED <<ppc, pstep, senders, rthread, sent, joined, presult, repoHead, worktree>>
  /\ UNCHANGED <<phist, rvars, ovars, cvars>>

\* The rendering thread finds the channel empty and disconnected: it clears
\* the widget and exits.
RenderExit ==
  /\ rthread = "running"
  /\ chan = <<>>
  /\ ~senders
  /\ widget' = [widget EXCEPT !.clears = @ + 1]
  /\ rthread' = "exited"
  /\ UNCHANGED <<ppc, pstep, chan, senders, sent, joined, presult, repoHead, worktree>>
  /\ UNCHANGED <<phist, rvars, ovars, cvars>>

\* Line 43: let _ = handle.join();
Join ==
  /\ ppc = "join"
  /\ rthread = "exited"
  /\ joined' = TRUE
  /\ ppc' = "analysis"
  /\ UNCHANGED <<pstep, chan, senders, rthread, widget, sent, presult, repoHead, worktree>>
  /\ UNCHANGED <<phist, rvars, ovars, cvars>>

\* The flags of git2::MergeAnalysis that run looks at, and what
\* repo.merge_analysis returns: a failure of lines 45-47, or a set of flags.
MergeFlags == {"up_to_date", "fast_forward", "normal"}
Analyses == [ok : BOOLEAN, flags : SUBSET MergeFlags]
is_up_to_date(a) == "up_to_date" \in a.flags
is_fast_forward(a) == "fast_forward" \in a.flags

\* Lines 45-57 with the fast-forward test made before the up-to-date test.
Analysis_fast_forward_first(a) ==
  /\ ppc = "analysis"
  /\ IF ~a.ok THEN Return(Err("analysis"))
     ELSE IF is_fast_forward(a) THEN ppc' = "set_target" /\ UNCHANGED <<presult, senders>>
     ELSE IF is_up_to_date(a) THEN ppc' = "renderln" /\ UNCHANGED <<presult, senders>>
     ELSE Return(Err("unable to fast-forward (rebase not implemented)"))
  /\ UNCHANGED <<pstep, chan, rthread, widget, sent, joined, repoHead, worktree>>
  /\ analysis' = Some(a)
  /\ UNCHANGED <<fetched, rvars, ovars, cvars>>

\* Lines 45-57: the merge analysis (one of the ? of lines 45-47 may fail) and
\* the branch run takes on it: up-to-date is tested first, then fast-forward.
Analysis(a) ==
  /\ ppc = "analysis"
  /\ IF ~a.ok THEN Return(Err("analysis"))
     ELSE IF is_up_to_date(a) THEN ppc' = "renderln" /\ UNCHANGED <<presult, senders>>
     ELSE IF is_fast_forward(a) THEN ppc' = "set_target" /\ UNCHANGED <<presult, senders>>
     ELSE Return(Err("unable to fast-forward (rebase not implemented)"))
  /\ UNCHANGED <<pstep, chan, rthread, widget, sent, joined, repoHead, worktree>>
  /\ analysis' = Some(a)
  /\ UNCHANGED <<fetched, rvars, ovars, cvars>>

\* Line 51: return Ok(ui.renderln(&message_with_icon(Icon::Check, "up to date"))?)
RenderUpToDate(ok) ==
  /\ ppc = "renderln"
  /\ Return(IF ok THEN Ok("up to date") ELSE Err("renderln"))
  /\ UNCHANGED <<pstep, chan, rthread, widget, sent, joined, repoHead, worktree>>
  /\ UNCHANGED <<phist, rvars, ovars, cvars>>

\* Line 53: head.set_target(oid, "fast-forward")?
SetTarget(ok) ==
  /\ ppc = "set_target"
  /\ IF ok
     THEN repoHead' = "upstream" /\ ppc' = "checkout_tree" /\ UNCHANGED <<presult, senders>>
     ELSE Return(Err("set_target")) /\ UNCHANGED repoHead
  /\ UNCHANGED <<pstep, chan, rthread, widget, sent, joined, worktree>>
  /\ UNCHANGED <<phist, rvars, ovars, cvars>>

\* Line 54: repo.checkout_tree(&target.find_tree()?, true)?
CheckoutTree(ok) ==
  /\ ppc = "checkout_tree"
  /\ IF ok
     THEN worktree' = "upstream" /\ ppc' = "status" /\ UNCHANGED <<presult, senders>>
     ELSE Return(Err("checkout_tree")) /\ UNCHANGED worktree
  /\ UNCHANGED <<pstep, chan, rthread, widget, sent, joined, repoHead>>
  /\ UNCHANGED <<phist, rvars, ovars, cvars>>

\* Line 60: super::status::run(..)
StatusRun(ok) ==
  /\ ppc = "status"
  /\ Return(IF ok THEN Ok("status") ELSE Err("status"))
  /\ UNCHANGED <<pstep, chan, rthread, widget, sent, joined, repoHead, worktree>>
  /\ UNCHANGED <<phist, rvars, ovars, cvars>>

NextPull ==
  \/ \E ok \in BOOLEAN : LookupStep(ok)
  \/ SetupProgressBar
  \/ \E ok \in BOOLEAN : FindRemote(ok)
  \/ \E v \in 1..MaxVal : FetchSend(v)
  \/ \E ok \in BOOLEAN : FetchReturns(ok)
  \/ RenderRecv
  \/ RenderExit
  \/ Join
  \/ \E a \in Analyses : Analysis(a)
  \/ \E ok \in BOOLEAN : RenderUpToDate(ok)
  \/ \E ok \in BOOLEAN : SetTarget(ok)
  \/ \E ok \in BOOLEAN : CheckoutTree(ok)
  \/ \E ok \in BOOLEAN : StatusRun(ok)

\* A sample the transport may report if it reports current <= total and,
\* within each field, values that never decrease.
WellBehaved(c, current, total) ==
  /\ current <= total
  /\ latest[c] # None => (current >= latest[c][1][1] /\ total >= latest[c][1][2])

LineWellBehaved(line) ==
  Parsed[line] # None =>
    WellBehaved(CategoryOf(Parsed[line][1][1]), Parsed[line][1][2], Parsed[line][1][3])

\* The synchronous-callback flow: the library invokes the callbacks nested in
\* the blocking call, one at a time.
Next ==
  \/ Call
  \/ \E t \in {"pack", "push"}, current \in Values, total \in Totals :
       Quiescent /\ StructuredProgress(t, current, total)
  \/ \E line \in Lines : Quiescent /\ SidebandProgress(line)
  \/ \E line \in Lines : Quiescent /\ SidebandOther(line)
  \/ \E t \in Closure : SetMessage(t)
  \/ \E t \in Closure : StoreCurrent(t)
  \/ \E t \in Closure : StoreTotal(t)
  \/ \E t \in Closure : Progress(t)
  \/ \E t \in Closure : SetLength(t)
  \/ \E t \in Closure : SetPosition(t)
  \/ \E t \in Closure : Tick(t)
  \/ TransportOk
  \/ \E e \in TransportErrors : TransportErr(e)
  \/ into_reply

\* The flow in which worker threads of the transport invoke the closures:
\* invocations of different closures overlap, and the transport is one that
\* reports well-behaved samples.
NextThreads ==
  \/ Call
  \/ \E t \in {"pack", "push"}, current \in Values, total \in Totals :
       WellBehaved(t, current, total) /\ StructuredProgress(t, current, total)
  \/ \E line \in Lines : LineWellBehaved(line) /\ SidebandProgress(line)
  \/ \E line \in Lines : SidebandOther(line)
  \/ \E t \in Closure : SetMessage(t)
  \/ \E t \in Closure : StoreCurrent(t)
  \/ \E t \in Closure : StoreTotal(t)
  \/ \E t \in Closure : Progress(t)
  \/ \E t \in Closure : SetLength(t)
  \/ \E t \in Closure : SetPosition(t)
  \/ \E t \in Closure : Tick(t)
  \/ TransportOk
  \/ \E e \in TransportErrors : TransportErr(e)
  \/ into_reply

\* ------------------------------------------------------------------
\* main (main.rs) and list::_run (cmd/list.rs)

\* The commands of main's dispatch that are modelled.
Commands == {"list", "checkout", "status"}

\* What one write to standard output can return: "ok", the error kind
\* BrokenPipe, or an error of another kind (a full disk, say).
WriteOutcomes == {"ok", "BrokenPipe", "Other"}

\* A pipe whose reader is gone answers every write with BrokenPipe; an open
\* standard output takes the write or fails in another way.
CanReturn(o) == IF pipe = "closed" THEN o = "BrokenPipe" ELSE o \in {"ok", "Other"}

InitMain ==
  /\ mpc = "start"
  /\ cmd = ""
  /\ cresult = None
  /\ errLines = 0
  /\ exitCode = None

InitList ==
  /\ lpc = "idle"
  /\ short = FALSE
  /\ ncommits = 0
  /\ li = 1
  /\ pipe = "open"
  /\ out = <<>>
  /\ wlog = <<>>

\* The command returns r: it is what the closure app of main returns.
Finish(r) ==
  /\ mpc' = "report"
  /\ cresult' = Some(r)

\* Lines 103-138 for Cmd::List: open_repo(&opts.dir)? and cmd::list::run.
DispatchList(opened, s, n) ==
  /\ mpc = "start"
  /\ cmd' = "list"
  /\ IF opened
     THEN /\ mpc' = "running"
          /\ lpc' = "start"
          /\ short' = s
          /\ ncommits' = n
          /\ UNCHANGED cresult
     ELSE /\ Finish(Err("open_repo"))
          /\ UNCHANGED <<lpc, short, ncommits>>
  /\ UNCHANGED <<errLines, exitCode, li, pipe, out, wlog, kvars, svars>>
  /\ UNCHANGED <<rvars, ovars, pvars>>

\* Lines 140-142: if let Err(e) = app() { eprintln!(..) }
MainReport ==
  /\ mpc = "report"
  /\ errLines' = IF cresult[1].ok THEN errLines ELSE errLines + 1
  /\ mpc' = "exit"
  /\ UNCHANGED <<cmd, cresult, exitCode, lvars, kvars, svars>>
  /\ UNCHANGED <<rvars, ovars, pvars>>

\* Line 143: main returns (), whatever app() returned: exit status 0.
MainExit ==
  /\ mpc = "exit"
  /\ exitCode' = Some(0)
  /\ mpc' = "exited"
  /\ UNCHANGED <<cmd, cresult, errLines, lvars, kvars, svars>>
  /\ UNCHANGED <<rvars, ovars, pvars>>

\* The reader of standard output (the pager, head, ..) goes away.
ClosePipe ==
  /\ mpc = "running"
  /\ cmd = "list"
  /\ pipe = "open"
  /\ pipe' = "closed"
  /\ UNCHANGED <<lpc, short, ncommits, li, out, wlog, mvars, kvars, svars>>
  /\ UNCHANGED <<rvars, ovars, pvars>>

ListReturn(r) ==
  /\ lpc' = "returned"
  /\ Finish(r)

\* Lines 32-34: repo.revwalk()? and revwalk.push_head()?
ListStart(ok) ==
  /\ lpc = "start"
  /\ IF ok
     THEN lpc' = "next" /\ UNCHANGED <<mpc, cresult>>
     ELSE ListReturn(Err("revwalk"))
  /\ UNCHANGED <<short, ncommits, li, pipe, out, wlog>>
  /\ UNCHANGED <<cmd, errLines, exitCode, kvars, svars>>
  /\ UNCHANGED <<rvars, ovars, pvars>>

\* Lines 36-49 and 72: the next commit of the walk (oid? and find_commit(id)?
\* may fail), or Ok(()) after the last one.
ListNext(ok) ==
  /\ lpc = "next"
  /\ IF li > ncommits
     THEN ListReturn(Ok("unit"))
     ELSE IF ok
          THEN lpc' = "writeln" /\ UNCHANGED <<mpc, cresult>>
          ELSE ListReturn(Err("find_commit"))
  /\ UNCHANGED <<short, ncommits, li, pipe, out, wlog>>
  /\ UNCHANGED <<cmd, errLines, exitCode, kvars, svars>>
  /\ UNCHANGED <<rvars, ovars, pvars>>

\* Lines 51-60 with BrokenPipe reported as an error.
ListWriteln_broken_pipe_is_error(o) ==
  /\ lpc = "writeln"
  /\ CanReturn(o)
  /\ wlog' = Append(wlog, [commit |-> li, what |-> "line", outcome |-> o])
  /\ out' = IF o = "ok" THEN Append(out, <<li, "line">>) ELSE out
  /\ IF o = "BrokenPipe"
     THEN ListReturn(Err("BrokenPipe"))
     ELSE lpc' = "meta" /\ UNCHANGED <<mpc, cresult>>
  /\ UNCHANGED <<short, ncommits, li, pipe>>
  /\ UNCHANGED <<cmd, errLines, exitCode, kvars, svars>>
  /\ UNCHANGED <<rvars, ovars, pvars>>

\* Lines 51-60: writeln!(stdout, ..); an error of kind BrokenPipe returns
\* Ok(()), an error of any other kind is dropped and the loop body goes on.
ListWriteln(o) ==
  /\ lpc = "writeln"
  /\ CanReturn(o)
  /\ wlog' = Append(wlog, [commit |-> li, what |-> "line", outcome |-> o])
  /\ out' = IF o = "ok" THEN Append(out, <<li, "line">>) ELSE out
  /\ IF o = "BrokenPipe"
     THEN ListReturn(Ok("unit"))
     ELSE lpc' = "meta" /\ UNCHANGED <<mpc, cresult>>
  /\ UNCHANGED <<short, ncommits, li, pipe>>
  /\ UNCHANGED <<cmd, errLines, exitCode, kvars, svars>>
  /\ UNCHANGED <<rvars, ovars, pvars>>

\* Lines 62-69: unless opts.short, let _ = write!(stdout, ..): the result
\* is dropped; then the next iteration.
ListMeta(o) ==
  /\ lpc = "meta"
  /\ IF short
     THEN o = "ok" /\ UNCHANGED <<wlog, out>>
     ELSE /\ CanReturn(o)
          /\ wlog' = Append(wlog, [commit |-> li, what |-> "meta", outcome |-> o])
          /\ out' = IF o = "ok" THEN Append(out, <<li, "meta">>) ELSE out
  /\ li' = li + 1
  /\ lpc' = "next"
  /\ UNCHANGED <<short, ncommits, pipe>>
  /\ UNCHANGED <<mvars, kvars, svars>>
  /\ UNCHANGED <<rvars, ovars, pvars>>

\* ------------------------------------------------------------------
\* checkout::run (cmd/checkout.rs)

\* CheckoutError::Conflict(_) and CheckoutError::Git(e)
Conflict(e) == [variant |-> "Conflict", payload |-> e]
Git(e) == [variant |-> "Git", payload |-> e]

\* The git errors the lookups and checkouts of one run fail with.
RunErrors == {e \in GitErrors : e.message = "m1"}

\* What repo.find_branch returns.
LocalLookups == {Ok("v1")} \cup {Err(e) : e \in RunErrors}

\* What repo.checkout returns.
CheckoutErrors == {e \in RunErrors : e.code = "GenericError" /\ e.class \in {"None", "Odb"}}
CheckoutResults ==
  {Ok("unit")} \cup {Err(Conflict(e)) : e \in CheckoutErrors}
               \cup {Err(Git(e)) : e \in CheckoutErrors}

\* The kinds of entry repo.remotes() yields: a remote with a name, one
\* without, and an entry whose remote? or remote.name()? fails.
RemoteKinds == {"named", "unnamed", "bad"}
RemoteLists == UNION {[1..n -> RemoteKinds] : n \in 0..MaxRemotes}

\* Lines 61-65 of find_remote_branch, each ending in ?.
TrackSteps == <<"find_remote_branch", "find_commit", "create_branch", "set_upstream">>

try_checkout_conflict_is_error(r) ==
  IF r.ok THEN Ok(TRUE) ELSE Err(r.err.payload)

\* try_checkout, applied to what repo.checkout(reference) returned.
try_checkout(r) ==
  IF r.ok THEN Ok(TRUE)
  ELSE IF r.err.variant = "Conflict" THEN Ok(FALSE)
  ELSE Err(r.err.payload)

InitCheckout ==
  /\ kpc = "idle"
  /\ klocal = None
  /\ fallback = FALSE
  /\ remotes = <<>>
  /\ ri = 1
  /\ touched = {}
  /\ kstep = 1
  /\ created = FALSE
  /\ kfirst = None
  /\ attempts = <<>>
  /\ stashes = <<>>
  /\ kfail = ""

\* run returns r; step names the call that made it return early.
KReturn(r, step) ==
  /\ kpc' = "returned"
  /\ kfail' = step
  /\ Finish(r)

\* Lines 103-138 for Cmd::Checkout (line 126) and for a bare branch argument
\* (lines 130-134): open_repo(&opts.dir)? and cmd::checkout::run.
DispatchCheckout(opened, given) ==
  /\ mpc = "start"
  /\ cmd' = "checkout"
  /\ IF opened
     THEN /\ mpc' = "running"
          /\ kpc' = IF given THEN "find_branch" ELSE "select"
          /\ UNCHANGED cresult
     ELSE /\ Finish(Err("open_repo"))
          /\ UNCHANGED kpc
  /\ UNCHANGED <<klocal, fallback, remotes, ri, touched, kstep, created, kfirst,
                 attempts, stashes, kfail>>
  /\ UNCHANGED <<errLines, exitCode, lvars, svars>>
  /\ UNCHANGED <<rvars, ovars, pvars>>

\* Lines 74-83: no branch given; o is "error" (branch_names or select::single
\* fails), "none" (nothing selected) or "some".
KSelect(o) ==
  /\ kpc = "select"
  /\ CASE o = "error" -> KReturn(Err("select"), "select")
       [] o = "none" -> KReturn(Err("No branch selected"), "select")
       [] o = "some" -> kpc' = "find_branch" /\ UNCHANGED <<kfail, mpc, cresult>>
  /\ UNCHANGED <<klocal, fallback, remotes, ri, touched, kstep, created, kfirst,
                 attempts, stashes>>
  /\ UNCHANGED <<cmd, errLines, exitCode, lvars, svars>>
  /\ UNCHANGED <<rvars, ovars, pvars>>

\* Lines 85-87: repo.find_branch(&branch_name).optional()?
KFindBranch(r) ==
  /\ kpc = "find_branch"
  /\ klocal' = Some(r)
  /\ LET x == optional(r)
     IN  IF ~x.ok
         THEN KReturn(Err(x.err), "find_branch") /\ UNCHANGED fallback
         ELSE /\ kpc' = IF x.value = None THEN "remotes" ELSE "try_checkout"
              /\ fallback' = (x.value = None)
              /\ UNCHANGED <<kfail, mpc, cresult>>
  /\ UNCHANGED <<remotes, ri, touched, kstep, created, kfirst, attempts, stashes>>
  /\ UNCHANGED <<cmd, errLines, exitCode, lvars, svars>>
  /\ UNCHANGED <<rvars, ovars, pvars>>

\* Line 52: repo.remotes()?
KRemotes(ok, rs) ==
  /\ kpc = "remotes"
  /\ IF ok
     THEN /\ remotes' = rs
          /\ kpc' = "remote"
          /\ UNCHANGED <<kfail, mpc, cresult>>
     ELSE /\ KReturn(Err("remotes"), "remotes")
          /\ UNCHANGED remotes
  /\ UNCHANGED <<klocal, fallback, ri, touched, kstep, created, kfirst, attempts, stashes>>
  /\ UNCHANGED <<cmd, errLines, exitCode, lvars, svars>>
  /\ UNCHANGED <<rvars, ovars, pvars>>

\* Lines 52-56 and 70, 89: the next remote of the loop; after the last one
\* find_remote_branch returns Ok(None) and run fails with "Branch not found".
KRemoteNext ==
  /\ kpc = "remote"
  /\ IF ri > Len(remotes)
     THEN KReturn(Err("Branch not found"), "not_found") /\ UNCHANGED ri
     ELSE CASE remotes[ri] = "bad" -> KReturn(Err("remote"), "remote") /\ UNCHANGED ri
            [] remotes[ri] = "unnamed" -> ri' = ri + 1 /\ UNCHANGED <<kpc, kfail, mpc, cresult>>
            [] remotes[ri] = "named" -> kpc' = "fetch" /\ UNCHANGED <<ri, kfail, mpc, cresult>>
  /\ UNCHANGED <<klocal, fallback, remotes, touched, kstep, created, kfirst, attempts, stashes>>
  /\ UNCHANGED <<cmd, errLines, exitCode, lvars, svars>>
  /\ UNCHANGED <<rvars, ovars, pvars>>

\* Line 58 with a failed fetch passed over for the next remote.
KFetch_skips_failed_remote(ok) ==
  /\ kpc = "fetch"
  /\ touched' = touched \cup {ri}
  /\ IF ok
     THEN kpc' = "track" /\ UNCHANGED ri
     ELSE kpc' = "remote" /\ ri' = ri + 1
  /\ UNCHANGED <<kfail, mpc, cresult>>
  /\ UNCHANGED <<klocal, fallback, remotes, kstep, created, kfirst, attempts, stashes>>
  /\ UNCHANGED <<cmd, errLines, exitCode, lvars, svars>>
  /\ UNCHANGED <<rvars, ovars, pvars>>

\* Line 58: remote.fetch(RemoteOpts::default(), branch_name)?
KFetch(ok) ==
  /\ kpc = "fetch"
  /\ touched' = touched \cup {ri}
  /\ IF ok
     THEN kpc' = "track" /\ UNCHANGED <<kfail, mpc, cresult>>
     ELSE KReturn(Err("fetch"), "fetch")
  /\ UNCHANGED ri
  /\ UNCHANGED <<klocal, fallback, remotes, kstep, created, kfirst, attempts, stashes>>
  /\ UNCHANGED <<cmd, errLines, exitCode, lvars, svars>>
  /\ UNCHANGED <<rvars, ovars, pvars>>

\* Lines 60-67: find the remote branch and its commit, create the local
\* branch, set its upstream; then find_remote_branch returns Ok(Some(..)).
KTrack(ok) ==
  /\ kpc = "track"
  /\ IF ok
     THEN /\ kstep' = kstep + 1
          /\ created' = (created \/ TrackSteps[kstep] = "create_branch")
          /\ kpc' = IF kstep = Len(TrackSteps) THEN "try_checkout" ELSE "track"
          /\ UNCHANGED <<kfail, mpc, cresult>>
     ELSE /\ KReturn(Err(TrackSteps[kstep]), "track")
          /\ UNCHANGED <<kstep, created>>
  /\ UNCHANGED <<klocal, fallback, remotes, ri, touched, kfirst, attempts, stashes>>
  /\ UNCHANGED <<cmd, errLines, exitCode, lvars, svars>>
  /\ UNCHANGED <<rvars, ovars, pvars>>

\* Line 94: try_checkout(&repo, &branch.into())?
KTryCheckout(cr) ==
  /\ kpc = "try_checkout"
  /\ attempts' = Append(attempts, cr)
  /\ LET x == try_checkout(cr)
     IN  /\ kfirst' = Some(<<cr, x>>)
         /\ IF ~x.ok
            THEN KReturn(Err(x.err), "try_checkout")
            ELSE /\ kpc' = IF x.value THEN "status" ELSE "save_stash"
                 /\ UNCHANGED <<kfail, mpc, cresult>>
  /\ UNCHANGED <<klocal, fallback, remotes, ri, touched, kstep, created, stashes>>
  /\ UNCHANGED <<cmd, errLines, exitCode, lvars, svars>>
  /\ UNCHANGED <<rvars, ovars, pvars>>

\* Line 95: repo.save_stash(..)?
KSaveStash(ok) ==
  /\ kpc = "save_stash"
  /\ IF ok
     THEN /\ stashes' = Append(stashes, Len(attempts))
          /\ kpc' = "renderln"
          /\ UNCHANGED <<kfail, mpc, cresult>>
     ELSE /\ KReturn(Err("save_stash"), "save_stash")
          /\ UNCHANGED stashes
  /\ UNCHANGED <<klocal, fallback, remotes, ri, touched, kstep, created, kfirst, attempts>>
  /\ UNCHANGED <<cmd, errLines, exitCode, lvars, svars>>
  /\ UNCHANGED <<rvars, ovars, pvars>>

\* Lines 97-98: ui.renderln(&message_with_icon(Icon::Check, "Changes stashed"))?
KRenderStashed(ok) ==
  /\ kpc = "renderln"
  /\ IF ok
     THEN kpc' = "find_branch_again" /\ UNCHANGED <<kfail, mpc, cresult>>
     ELSE KReturn(Err("renderln"), "renderln")
  /\ UNCHANGED <<klocal, fallback, remotes, ri, touched, kstep, created, kfirst,
                 attempts, stashes>>
  /\ UNCHANGED <<cmd, errLines, exitCode, lvars, svars>>
  /\ UNCHANGED <<rvars, ovars, pvars>>

\* Line 100: repo.find_branch(&branch_name)?
KFindBranchAgain(ok) ==
  /\ kpc = "find_branch_again"
  /\ IF ok
     THEN kpc' = "checkout_again" /\ UNCHANGED <<kfail, mpc, cresult>>
     ELSE KReturn(Err("find_branch"), "find_branch_again")
  /\ UNCHANGED <<klocal, fallback, remotes, ri, touched, kstep, created, kfirst,
                 attempts, stashes>>
  /\ UNCHANGED <<cmd, errLines, exitCode, lvars, svars>>
  /\ UNCHANGED <<rvars, ovars, pvars>>

\* Line 101 with a conflict answered by one more stash.
KCheckoutAgain_stashes_again(cr) ==
  /\ kpc = "checkout_again"
  /\ attempts' = Append(attempts, cr)
  /\ IF cr.ok
     THEN kpc' = "status" /\ UNCHANGED <<kfail, mpc, cresult>>
     ELSE IF cr.err.variant = "Conflict" /\ Len(stashes) < 2
          THEN kpc' = "save_stash" /\ UNCHANGED <<kfail, mpc, cresult>>
          ELSE KReturn(Err(cr.err), "checkout_again")
  /\ UNCHANGED <<klocal, fallback, remotes, ri, touched, kstep, created, kfirst, stashes>>
  /\ UNCHANGED <<cmd, errLines, exitCode, lvars, svars>>
  /\ UNCHANGED <<rvars, ovars, pvars>>

\* Line 101: repo.checkout(&branch.into())?  Either CheckoutError returns.
KCheckoutAgain(cr) ==
  /\ kpc = "checkout_again"
  /\ attempts' = Append(attempts, cr)
  /\ IF cr.ok
     THEN kpc' = "status" /\ UNCHANGED <<kfail, mpc, cresult>>
     ELSE KReturn(Err(cr.err), "checkout_again")
  /\ UNCHANGED <<klocal, fallback, remotes, ri, touched, kstep, created, kfirst, stashes>>
  /\ UNCHANGED <<cmd, errLines, exitCode, lvars, svars>>
  /\ UNCHANGED <<rvars, ovars, pvars>>

\* ------------------------------------------------------------------
\* status::run (cmd/status.rs)

\* The parts render submits, in its order.
RenderParts == <<"branch", "state", "changes", "commits">>

\* The parts of the tree of a repository whose find_state returned st: the
\* commits are part of it when there is an upstream to compare with.
FullTree(st) ==
  IF st = Some("some") THEN RenderParts ELSE SubSeq(RenderParts, 1, 3)

InitStatus ==
  /\ spc = "idle"
  /\ noPager = FALSE
  /\ sstate = None
  /\ submitted = <<>>
  /\ pageCalls = 0
  /\ shown = None
  /\ renderFailed = FALSE

\* status::run is entered with Opts::default(); lines 311-315.
StatusCall ==
  /\ noPager' = FALSE
  /\ spc' = "set_prompt"

SReturn(r) ==
  /\ spc' = "returned"
  /\ Finish(r)

\* Line 104 of checkout.rs: super::status::run(gix::open(repo.path())?, ..)
KStatus(opened) ==
  /\ kpc = "status"
  /\ IF opened
     THEN /\ StatusCall
          /\ kpc' = "in_status"
          /\ UNCHANGED <<kfail, mpc, cresult>>
     ELSE /\ KReturn(Err("gix::open"), "status")
          /\ UNCHANGED <<spc, noPager>>
  /\ UNCHANGED <<klocal, fallback, remotes, ri, touched, kstep, created, kfirst,
                 attempts, stashes>>
  /\ UNCHANGED <<sstate, submitted, pageCalls, shown, renderFailed>>
  /\ UNCHANGED <<cmd, errLines, exitCode, lvars>>
  /\ UNCHANGED <<rvars, ovars, pvars>>

\* Line 135 of main.rs: no command and no branch, status::run(open_gix(..)?, ..)
DispatchStatus(opened) ==
  /\ mpc = "start"
  /\ cmd' = "status"
  /\ IF opened
     THEN /\ mpc' = "running"
          /\ StatusCall
          /\ UNCHANGED cresult
     ELSE /\ Finish(Err("open_gix"))
          /\ UNCHANGED <<spc, noPager>>
  /\ UNCHANGED <<sstate, submitted, pageCalls, shown, renderFailed>>
  /\ UNCHANGED <<errLines, exitCode, lvars, kvars>>
  /\ UNCHANGED <<rvars, ovars, pvars>>

\* Lines 314-315: Pager::new() and pager.set_prompt(..)?
SSetPrompt(ok) ==
  /\ spc = "set_prompt"
  /\ IF ok
     THEN spc' = "find_state" /\ UNCHANGED <<mpc, cresult>>
     ELSE SReturn(Err("set_prompt"))
  /\ UNCHANGED <<noPager, sstate, submitted, pageCalls, shown, renderFailed>>
  /\ UNCHANGED <<cmd, errLines, exitCode, lvars, kvars>>
  /\ UNCHANGED <<rvars, ovars, pvars>>

\* Line 297: find_state(&repo)?; o is "error", "none" or "some".
SFindState(o) ==
  /\ spc = "find_state"
  /\ IF o = "error"
     THEN /\ SReturn(Err("find_state"))
          /\ renderFailed' = TRUE
          /\ UNCHANGED sstate
     ELSE /\ sstate' = Some(o)
          /\ spc' = "render"
          /\ UNCHANGED <<renderFailed, mpc, cresult>>
  /\ UNCHANGED <<noPager, submitted, pageCalls, shown>>
  /\ UNCHANGED <<cmd, errLines, exitCode, lvars, kvars>>
  /\ UNCHANGED <<rvars, ovars, pvars>>

\* Lines 299-307 with the error of a part dropped and the part left out.
SRenderPart_drops_error(ok) ==
  /\ spc = "render"
  /\ LET part == RenderParts[Len(submitted) + 1]
         after == IF ok THEN Append(submitted, part) ELSE submitted
     IN  /\ submitted' = after
         /\ spc' = IF ok /\ after # FullTree(sstate) THEN "render"
                   ELSE IF noPager THEN "returned" ELSE "page_all"
         /\ IF noPager /\ (~ok \/ after = FullTree(sstate))
            THEN Finish(Ok("unit"))
            ELSE UNCHANGED <<mpc, cresult>>
  /\ UNCHANGED <<noPager, sstate, pageCalls, shown, renderFailed>>
  /\ UNCHANGED <<cmd, errLines, exitCode, lvars, kvars>>
  /\ UNCHANGED <<rvars, ovars, pvars>>

\* Lines 299-307, then 312 or 317: the next part is submitted to the
\* renderer, the commits only when find_state returned Some; an error of a
\* part returns from render and, through ?, from run.
SRenderPart(ok) ==
  /\ spc = "render"
  /\ LET part == RenderParts[Len(submitted) + 1]
         after == Append(submitted, part)
     IN  IF ok
         THEN /\ submitted' = after
              /\ UNCHANGED renderFailed
              /\ IF after # FullTree(sstate)
                 THEN UNCHANGED <<spc, mpc, cresult>>
                 ELSE IF noPager
                      THEN SReturn(Ok("unit"))
                      ELSE spc' = "page_all" /\ UNCHANGED <<mpc, cresult>>
         ELSE /\ SReturn(Err(part))
              /\ renderFailed' = TRUE
              /\ UNCHANGED submitted
  /\ UNCHANGED <<noPager, sstate, pageCalls, shown>>
  /\ UNCHANGED <<cmd, errLines, exitCode, lvars, kvars>>
  /\ UNCHANGED <<rvars, ovars, pvars>>

\* Lines 318-320: minus::page_all(pager)? and Ok(())
SPageAll(ok) ==
  /\ spc = "page_all"
  /\ pageCalls' = pageCalls + 1
  /\ shown' = Some(submitted)
  /\ SReturn(IF ok THEN Ok("unit") ELSE Err("page_all"))
  /\ UNCHANGED <<noPager, sstate, submitted, renderFailed>>
  /\ UNCHANGED <<cmd, errLines, exitCode, lvars, kvars>>
  /\ UNCHANGED <<rvars, ovars, pvars>>

InitCommands == InitMain /\ InitList /\ InitCheckout /\ InitStatus

\* One run of the program: main dispatches to one command.
NextMain ==
  \/ \E opened, s \in BOOLEAN, n \in 0..MaxCommits : DispatchList(opened, s, n)
  \/ \E opened, given \in BOOLEAN : DispatchCheckout(opened, given)
  \/ \E opened \in BOOLEAN : DispatchStatus(opened)
  \/ MainReport
  \/ MainExit
  \/ ClosePipe
  \/ \E ok \in BOOLEAN : ListStart(ok)
  \/ \E ok \in BOOLEAN : ListNext(ok)
  \/ \E o \in WriteOutcomes : ListWriteln(o)
  \/ \E o \in WriteOutcomes : ListMeta(o)
  \/ \E o \in {"error", "none", "some"} : KSelect(o)
  \/ \E r \in LocalLookups : KFindBranch(r)
  \/ \E ok \in BOOLEAN, rs \in RemoteLists : KRemotes(ok, rs)
  \/ KRemoteNext
  \/ \E ok \in BOOLEAN : KFetch(ok)
  \/ \E ok \in BOOLEAN : KTrack(ok)
  \/ \E cr \in CheckoutResults : KTryCheckout(cr)
  \/ \E ok \in BOOLEAN : KSaveStash(ok)
  \/ \E ok \in BOOLEAN : KRenderStashed(ok)
  \/ \E ok \in BOOLEAN : KFindBranchAgain(ok)
  \/ \E cr \in CheckoutResults : KCheckoutAgain(cr)
  \/ \E opened \in BOOLEAN : KStatus(opened)
  \/ \E ok \in BOOLEAN : SSetPrompt(ok)
  \/ \E o \in {"error", "none", "some"} : SFindState(o)
  \/ \E ok \in BOOLEAN : SRenderPart(ok)
  \/ \E ok \in BOOLEAN : SPageAll(ok)

vars == <<rvars, ovars, pvars, cvars>>

\* One network operation, callbacks nested in the call.
Init == InitRemote /\ InitOptional /\ InitPull /\ InitCommands
Spec == Init /\ [][Next]_vars

\* One network operation, callbacks invoked by worker threads.
SpecThreads == Init /\ [][NextThreads]_vars

\* Calls of Optional::optional on every kind of Result.
SpecOptional == Init /\ [][NextOptional]_vars

\* One run of pull::run.
SpecPull == Init /\ [][NextPull]_vars

\* One run of pull::run in which the scheduler lets the rendering thread and
\* the joining thread run whenever they can.
SpecPullFair ==
  SpecPull /\ WF_vars(RenderRecv) /\ WF_vars(RenderExit) /\ WF_vars(Join)

\* One run of the program on a list, checkout or status command.
SpecMain == Init /\ [][NextMain]_vars

(***************************************************************************)
(* Properties of the network operation.                                    *)
(***************************************************************************)
LatestCurrent(c) == IF latest[c] = None THEN 0 ELSE latest[c][1][1]
LatestTotal(c) == IF latest[c] = None THEN 0 ELSE latest[c][1][2]

\* C1: whatever the order in which updates of the four categories arrived,
\* once every callback has returned State::progress() is (the sum of the
\* latest current of each category, the sum of the latest total of each).
C1_AggregateIsSumOfLatest ==
  Quiescent =>
    progress = << LatestCurrent("count") + LatestCurrent("compress")
                    + LatestCurrent("pack") + LatestCurrent("push"),
                  LatestTotal("count") + LatestTotal("compress")
                    + LatestTotal("pack") + LatestTotal("push") >>

\* Counting 1/2 and Compressing 2/2 were the latest updates: aggregate (3, 4).
C1_Witness ==
  /\ Quiescent
  /\ calls = 2
  /\ latest["count"] = Some(<<1, 2>>)
  /\ latest["compress"] = Some(<<2, 2>>)
  /\ progress = <<3, 4>>

RECURSIVE ToDigits(_)
\* The decimal digits of n, without leading zeros.
ToDigits(n) ==
  IF n < 10 THEN <<DigitOf[n + 1]>> ELSE Append(ToDigits(n \div 10), DigitOf[(n % 10) + 1])

\* The sideband closure has done both stores of the line it is handling.
SidebandStored ==
  th["sideband"].pc \in {"set_message", "progress", "set_length", "set_position", "tick"}

\* A step of the sideband closure on a recognized line leaves the pairs of
\* the other three categories and the stdout buffer as they were.
SidebandFrame ==
  LET k == IF th["sideband"].pc # "idle" THEN th["sideband"].kind ELSE th'["sideband"].kind
  IN  th'["sideband"] # th["sideband"] /\ k # "" =>
        /\ stdout' = stdout
        /\ \A d \in Cat \ {CategoryOf(k)} : cur'[d] = cur[d] /\ tot'[d] = tot[d]

\* C2 as stated: after the stores of a recognized line for category C, the
\* pair of C is exactly the (current/total) the line carries.
C2_StoresExactlyTheCarriedValues ==
  SidebandStored =>
    LET c == Captures(th["sideband"].line)[1]
    IN  /\ ToDigits(cur[CategoryOf(c[1])]) = StripZeros(c[2])
        /\ ToDigits(tot[CategoryOf(c[1])]) = StripZeros(c[3])

\* A count of the line as the closure stores it: its value if it fits a
\* usize, and 0 if it does not.
StoredAs(n, ds) == IF FitsUsize(ds) THEN ToDigits(n) = StripZeros(ds) ELSE n = 0

\* C2, amended: a recognized line for category C sets the pair of C to the
\* carried counts where they fit a usize and to 0 where they overflow it, and
\* every step of that callback leaves the other three pairs and stdout alone.
C2_StoresTheCountsThatFit ==
  /\ [](SidebandStored =>
          LET c == Captures(th["sideband"].line)[1]
          IN  /\ StoredAs(cur[CategoryOf(c[1])], c[2])
              /\ StoredAs(tot[CategoryOf(c[1])], c[3]))
  /\ [][SidebandFrame]_vars

\* A Compressing line was stored while count, pack and push kept their pairs.
C2_Witness ==
  /\ th["sideband"].pc = "tick"
  /\ th["sideband"].line = ProgressLine("Compressing", <<"1">>, <<"2">>)
  /\ cur["compress"] = 1 /\ tot["compress"] = 2
  /\ cur["pack"] = 2 /\ tot["pack"] = 2
  /\ stdout = <<>>

\* C3: a sideband line that does not parse is appended, whole and after what
\* was captured before, to the buffer that into_reply hands back, and the
\* step changes no counter and not the widget.
C3_RejectedLineIsCaptured ==
  /\ [][diag' # diag =>
          /\ stdout' = stdout \o SubSeq(diag', Len(diag) + 1, Len(diag'))
          /\ cur' = cur /\ tot' = tot /\ bar' = bar]_vars
  /\ [](stdout = diag)
  /\ [](result # None /\ result[1].ok => result[1].reply.stdout = diag)

\* Two rejected lines, the second one not UTF-8, were captured in order.
C3_Witness ==
  /\ result # None /\ result[1].ok
  /\ result[1].reply.stdout =
       <<"remote: done", "\n">> \o <<BadByte>> \o ProgressLine("Compressing", <<"1">>, <<"2">>)

\* C4 as stated: when fetch / push / connect return the transport's error,
\* finish_and_clear has been performed on the widget.
C4_ClearedOnFailure ==
  result # None /\ ~result[1].ok => bar.clears >= 1

\* C5: a successful fetch / push / connect clears the widget exactly once,
\* after every callback has returned; nothing touches the widget after the
\* clear; and the Reply holds the captured bytes.
C5_ClearedOnceAtTheEnd ==
  /\ [](result # None /\ result[1].ok =>
          /\ bar.clears = 1
          /\ Quiescent
          /\ result[1].reply.stdout = diag)
  /\ [](bar.clears <= 1)
  /\ [][bar.clears >= 1 => bar' = bar /\ th' = th]_vars
  /\ [][bar'.clears # bar.clears => Quiescent /\ phase = "returned"]_vars

\* A fetch that saw a progress update and a diagnostic line returned Ok.
C5_Witness ==
  /\ result # None /\ result[1].ok
  /\ bar.clears = 1
  /\ bar.ticks = 1
  /\ result[1].reply.stdout = <<"remote: done", "\n">>

\* C6 as stated: with a transport that reports non-decreasing values within
\* each category, no step lowers the widget's length or position.
C6_WidgetNeverGoesBack ==
  [][/\ bar'.position >= bar.position
     /\ bar.length # None => bar'.length[1] >= bar.length[1]]_vars

\* C7 as stated: with samples that have current <= total, a category whose
\* total is known has current <= total in every state.
C7_CurrentAtMostTotal ==
  \A c \in Cat : tot[c] > 0 => cur[c] <= tot[c]

DisplayName ==
  [c \in Cat |-> CASE c = "count" -> "Counting" [] c = "compress" -> "Compressing"
                   [] c = "pack" -> "Packing" [] c = "push" -> "Pushing"]

\* C8 as stated: when an update has completed and no callback is in flight,
\* the widget shows the aggregate and the name of the category whose update
\* was invoked last.
C8_WidgetShowsAggregate ==
  Quiescent /\ lastInvoked # "" =>
    /\ bar.length = Some(progress[2])
    /\ bar.position = progress[1]
    /\ bar.message = DisplayName[lastInvoked]

\* C9 as stated: on every path on which the rendering thread was started,
\* pull::run has joined it when it returns.
C9_JoinedBeforeReturn ==
  ppc = "returned" /\ rthread # "none" => joined

\* The three cases of the Result handed to optional().
NotFoundLookup(r) == ~r.ok /\ r.err.code = "NotFound" /\ r.err.class \in {"Config", "Reference"}

\* C10: optional() maps Ok(v) to Ok(Some(v)), an error to Ok(None) exactly
\* when it is NotFound of class Config or Reference, and returns every other
\* error unchanged.
C10_OptionalCases ==
  oout # None =>
    /\ oin.ok => oout[1] = Ok(Some(oin.value))
    /\ NotFoundLookup(oin) => oout[1] = Ok(None)
    /\ ~oin.ok /\ ~NotFoundLookup(oin) => oout[1] = Err(oin.err)
    /\ oout[1] = Ok(None) => NotFoundLookup(oin)

\* NotFound of another class came back as the same error.
C10_Witness ==
  /\ oout # None
  /\ oin = Err([code |-> "NotFound", class |-> "Odb", message |-> "m1"])
  /\ oout[1] = oin

\* C11: try_checkout returns Ok(true) exactly when the checkout succeeded,
\* Ok(false) exactly when it failed with a conflict, and Err(e) with the
\* underlying error e for every other failure.
C11_TryCheckoutCases ==
  kfirst # None =>
    LET cr == kfirst[1][1]
        x == kfirst[1][2]
    IN  /\ (x.ok /\ x.value) <=> cr.ok
        /\ (x.ok /\ ~x.value) <=> (~cr.ok /\ cr.err.variant = "Conflict")
        /\ ~x.ok <=> (~cr.ok /\ cr.err.variant = "Git")
        /\ ~x.ok => x.err = cr.err.payload

\* The first checkout met a conflict and run goes on to the stash.
C11_Witness ==
  /\ kfirst # None
  /\ ~kfirst[1][1].ok
  /\ kfirst[1][1].err.variant = "Conflict"
  /\ kpc = "save_stash"

\* C12: a write to standard output that fails with an error other than
\* BrokenPipe is the last write of _run, which returns Err.
C12_OtherWriteFailureAborts ==
  \A k \in 1..Len(wlog) :
    wlog[k].outcome = "Other" =>
      /\ k = Len(wlog)
      /\ lpc = "returned"
      /\ ~cresult[1].ok

\* C13: when the writeln! of a commit line fails with BrokenPipe, _run returns
\* Ok(()) at once and attempts no further write; nothing reaches standard
\* output after any BrokenPipe.
C13_BrokenPipeIsSwallowed ==
  /\ \A k \in 1..Len(wlog) :
       (wlog[k].what = "line" /\ wlog[k].outcome = "BrokenPipe") =>
         /\ k = Len(wlog)
         /\ lpc = "returned"
         /\ cresult[1].ok
  /\ \A k, j \in 1..Len(wlog) :
       (k < j /\ wlog[k].outcome = "BrokenPipe") => wlog[j].outcome # "ok"

\* A line was written, the reader went away, the next line met BrokenPipe and
\* the process ended.
C13_Witness ==
  /\ mpc = "exited"
  /\ out # <<>>
  /\ wlog # <<>>
  /\ wlog[Len(wlog)].what = "line"
  /\ wlog[Len(wlog)].outcome = "BrokenPipe"

\* C14: a command that fails makes main print exactly one line to standard
\* error and exit with a non-zero status; one that succeeds prints no such
\* line and exits with status zero.
C14_FailureExitsNonZero ==
  mpc = "exited" =>
    IF cresult[1].ok
    THEN errLines = 0 /\ exitCode = Some(0)
    ELSE errLines = 1 /\ exitCode # Some(0)

\* C15: in the paged flow page_all is called at most once, only when every
\* part of the tree has been submitted and no part failed, and it displays
\* the whole tree; nothing is displayed before, and never after a failure of
\* render.
C15_PagedOnceAfterFullTree ==
  ~noPager =>
    /\ pageCalls <= 1
    /\ pageCalls = 0 => shown = None
    /\ pageCalls = 1 =>
         /\ ~renderFailed
         /\ submitted = FullTree(sstate)
         /\ shown = Some(FullTree(sstate))
    /\ renderFailed => pageCalls = 0 /\ spc = "returned" /\ ~cresult[1].ok
    /\ spc = "page_all" => submitted = FullTree(sstate)

\* Branch, state, changes and commits were submitted and then paged.
C15_Witness ==
  /\ pageCalls = 1
  /\ sstate = Some("some")
  /\ submitted = RenderParts
  /\ mpc = "exited"

\* What C16 says apart from the number of attempts after the stash: a stash
\* only after a conflict of the first attempt, no stash when the first
\* attempt succeeds, at most one stash and two attempts, and the failure of
\* the stash or of the second attempt returned as an error.
StashOnlyOnConflict ==
  /\ Len(stashes) <= 1
  /\ Len(attempts) <= 2
  /\ stashes # <<>> => (kfirst # None /\ kfirst[1][2] = Ok(FALSE) /\ stashes[1] = 1)
  /\ (kfirst # None /\ kfirst[1][2] = Ok(TRUE)) => (stashes = <<>> /\ Len(attempts) = 1)
  /\ Len(attempts) = 2 => stashes # <<>>
  /\ (Len(attempts) = 2 /\ ~attempts[2].ok) =>
       (kpc = "returned" /\ kfail = "checkout_again" /\ ~cresult[1].ok)
  /\ kfail = "save_stash" => (~cresult[1].ok /\ stashes = <<>> /\ Len(attempts) = 1)

\* C16 as claimed: after the stash the checkout is attempted exactly once more.
C16_RetriedExactlyOnce ==
  /\ StashOnlyOnConflict
  /\ (stashes # <<>> /\ mpc # "running") => Len(attempts) = 2

\* C16: a stash is saved only after a conflict of the first attempt; after
\* it the checkout is attempted once more unless the "Changes stashed" line
\* or the second lookup of the branch fails, which returns that error with
\* no second attempt; failures of the stash and of the second attempt are
\* returned with no further retry.
C16_RetriedAtMostOnce ==
  /\ StashOnlyOnConflict
  /\ (stashes # <<>> /\ mpc # "running") =>
       \/ Len(attempts) = 2
       \/ /\ Len(attempts) = 1
          /\ kfail \in {"renderln", "find_branch_again"}
          /\ ~cresult[1].ok

\* The second attempt met a conflict too and run returned.
C16_Witness ==
  /\ Len(stashes) = 1
  /\ Len(attempts) = 2
  /\ ~attempts[2].ok
  /\ attempts[2].err.variant = "Conflict"
  /\ kpc = "returned"

\* C17: find_remote_branch is called exactly when the local lookup reported
\* not-found; a hard error of the local lookup is returned unchanged with no
\* remote touched; a failure while processing a remote is returned; "Branch
\* not found" is returned only when no remote has a name.
C17_FallbackOnlyOnNotFound ==
  /\ klocal = None => ~fallback
  /\ klocal # None => (fallback <=> NotFoundLookup(klocal[1]))
  /\ ~fallback => (touched = {} /\ ~created /\ remotes = <<>>)
  /\ created => touched # {}
  /\ (klocal # None /\ ~klocal[1].ok /\ ~NotFoundLookup(klocal[1])) =>
       /\ kpc = "returned"
       /\ kfail = "find_branch"
       /\ ~cresult[1].ok
       /\ cresult[1].err = klocal[1].err
  /\ kfail \in {"remotes", "remote", "fetch", "track"} => (fallback /\ ~cresult[1].ok)
  /\ kfail = "not_found" =>
       (fallback /\ \A i \in 1..Len(remotes) : remotes[i] = "unnamed")

\* The first remote has no name, the second was fetched and the tracking
\* branch created.
C17_Witness ==
  /\ fallback
  /\ created
  /\ touched = {2}
  /\ kpc = "try_checkout"

C19_FastForwardOnly ==
  /\ (repoHead # "local" \/ worktree # "local") =>
       /\ analysis # None
       /\ analysis[1].ok
       /\ is_fast_forward(analysis[1])
       /\ ~is_up_to_date(analysis[1])
  /\ (analysis # None /\ analysis[1].ok /\ is_up_to_date(analysis[1])) =>
       /\ repoHead = "local" /\ worktree = "local"
       /\ ppc \in {"renderln", "returned"}
       /\ ppc = "returned" => presult[1] \in {Ok("up to date"), Err("renderln")}
  /\ (analysis # None /\ analysis[1].ok
        /\ ~is_up_to_date(analysis[1]) /\ ~is_fast_forward(analysis[1])) =>
       /\ repoHead = "local" /\ worktree = "local"
       /\ ppc = "returned"
       /\ presult[1] = Err("unable to fast-forward (rebase not implemented)")
  /\ analysis # None => (fetched /\ joined)
  /\ worktree # "local" => repoHead # "local"

\* A fast-forward moved HEAD and the working tree.
C19_Witness ==
  /\ analysis # None
  /\ is_fast_forward(analysis[1])
  /\ repoHead = "upstream"
  /\ worktree = "upstream"
  /\ ppc = "returned"

====
